---- MODULE Spec2Model ----
(***************************************************************************)
(* linkaudit: the sitemap resolver (internal/sitemap), the check           *)
(* orchestrator (internal/checker) and the run controller (main).          *)
(*                                                                         *)
(* The program is single-threaded.  Each function is a small state machine *)
(* whose steps are the statements between two interactions with the world  *)
(* (an HTTP exchange, a file-system call, the lychee subprocess).  What    *)
(* the world answers is chosen with \E from small sets.                    *)
(***************************************************************************)
EXTENDS Integers, Sequences, FiniteSets, TLC

\* ------------------------------------------------------------------ bounds

\* The longest index document: the number of <sitemap> entries it lists.
MaxChildren == 2

\* The largest count the engine reports in successful / errors / excludes.
MaxCount == 1

\* ------------------------------------------------------------ the web

\* The URL given on the command line, and the child locations an index names.
sitemapURL == "top"

Locs == {"top", "s1", "s2"}

\* The <url><loc> sequences a urlset document may hold.
LeafDocs ==
  { <<>>, <<"/a">>, <<"/b", "/a">>, <<"/a", "/b", "/a">>, <<"/c", "/a">> }

RECURSIVE SeqsUpTo(_, _)
SeqsUpTo(S, n) ==
  IF n = 0 THEN { <<>> }
  ELSE LET shorter == SeqsUpTo(S, n - 1)
       IN  shorter \cup { Append(s, x) : s \in { t \in shorter : Len(t) = n - 1 }, x \in S }

\* A response body, as encoding/xml sees it: its root element and entries.
GarbageDoc == [kind |-> "garbage", locs |-> <<>>, urls |-> <<>>]

IndexDoc(locs) == [kind |-> "sitemapindex", locs |-> locs, urls |-> <<>>]

URLSetDoc(urls) == [kind |-> "urlset", locs |-> <<>>, urls |-> urls]

\* An HTTP exchange: client.Do / io.ReadAll failed, or a status and a body.
TransportError == [transport |-> "error", status |-> 0, body |-> GarbageDoc]

HTTPResponse(status, body) == [transport |-> "ok", status |-> status, body |-> body]

StatusCodes == {200, 404}

TopBodies ==
  {GarbageDoc} \cup { IndexDoc(l) : l \in SeqsUpTo(Locs, MaxChildren) }
               \cup { URLSetDoc(u) : u \in LeafDocs }

ChildBodies ==
  {GarbageDoc, IndexDoc(<<"top">>)} \cup { URLSetDoc(u) : u \in LeafDocs }

TopResponses ==
  {TransportError} \cup { HTTPResponse(s, b) : s \in StatusCodes, b \in TopBodies }

ChildResponses ==
  {TransportError} \cup { HTTPResponse(s, b) : s \in StatusCodes, b \in ChildBodies }

\* ------------------------------------------------------------ state

VARIABLES
  fpc,        \* FetchGrouped: "idle", "start", "children", "returned"
  topResp,    \* the exchange for sitemapURL (resp, body)
  index,      \* sitemapIndex.Sitemaps: the child locations, in document order
  i,          \* position of the range loop over index (1-based)
  fetched,    \* the exchanges made for index[1..i-1], in order
  Sitemaps,   \* result.Sitemaps: a map from sitemap URL to its page URLs
  AllURLs,    \* result.AllURLs
  fetchErr    \* the error FetchGrouped returns ("none": nil)

VARIABLES
  cpc,         \* CheckURLs: "idle", "start", "writeURLs", "run", "read", "decode",
               \* "writeOut", "returned"
  pageURLs,    \* the argument pageURLs
  opts,        \* the argument opts (Format, OutputFile)
  tempDir,     \* whether the directory made by os.MkdirTemp exists
  urlsFile,    \* tempDir/urls.txt
  jsonFile,    \* tempDir/output.json
  cmdErr,      \* what cmd.Run() returned, which CheckURLs discards
  readErr,     \* err of os.ReadFile(jsonOutputFile)
  outputBytes, \* its bytes
  output,      \* the decoded LycheeOutput
  result,      \* the local result, then the *Result returned
  checkErr,    \* the error CheckURLs returns ("none": nil)
  outFile,     \* the file at opts.OutputFile
  mkdirCalls,  \* calls of os.MkdirTemp so far
  launches     \* calls of cmd.Run so far

VARIABLES
  rpc,         \* run: "none", "start", "fetching", "merged", "groups", "groupcheck",
               \* "exited"
  flags,       \* the command-line flags dryRun, perSitemap, outputFile, outputFormat
  pending,     \* the keys of fetchResult.Sitemaps the range loop has yet to visit
  smURL,       \* the key of the current iteration
  report,      \* runPerSitemap's FullReport
  hasFailures, \* runPerSitemap's hasFailures
  errorLog,    \* the sitemap URLs whose check printed "  Error: ..."
  reportFile,  \* the report written to outputFile by runPerSitemap
  runErr,      \* the error run returns ("none": nil)
  exitCode     \* the process exit status (-1 while running)

fetchVars == <<fpc, topResp, index, i, fetched, Sitemaps, AllURLs, fetchErr>>

runVars ==
  <<rpc, flags, pending, smURL, report, hasFailures, errorLog, reportFile, runErr, exitCode>>

checkVars ==
  <<cpc, pageURLs, opts, tempDir, urlsFile, jsonFile, cmdErr, readErr, outputBytes,
    output, result, checkErr, outFile, mkdirCalls, launches>>

vars == <<fetchVars, checkVars, runVars>>

EmptyMap == [k \in {} |-> <<>>]

\* ------------------------------------------------------------ sitemap.go

\* xml.Unmarshal(body, &sitemapIndex): the root element must be <sitemapindex>.
UnmarshalIndexOK(body) == body.kind = "sitemapindex"

\* xml.Unmarshal(body, &urlSet): the root element must be <urlset>.
UnmarshalURLSetOK(body) == body.kind = "urlset"

\* dedupe: the loop over urls with the seen map.
RECURSIVE dedupeLoop(_, _, _)
dedupeLoop(urls, seen, res) ==
  IF urls = <<>> THEN res
  ELSE IF Head(urls) \in seen
       THEN dedupeLoop(Tail(urls), seen, res)
       ELSE dedupeLoop(Tail(urls), seen \cup {Head(urls)}, Append(res, Head(urls)))

dedupeKeepsAll(urls) == urls

dedupe(urls) == dedupeLoop(urls, {}, <<>>)

\* m[k] = v on a Go map.
MapSet(m, k, v) == [x \in (DOMAIN m) \cup {k} |-> IF x = k THEN v ELSE m[x]]

\* What a step of FetchGrouped leaves alone.
FetchFrame == UNCHANGED <<checkVars, runVars>>

FetchReturnError(e) ==
  /\ fpc' = "returned"
  /\ fetchErr' = e
  /\ UNCHANGED <<index, i, fetched, Sitemaps, AllURLs>>

\* FetchGrouped up to the dispatch on the document's kind: the GET, the status
\* check, the two parse attempts, and the whole leaf path.
FetchTop(responses) ==
  /\ fpc = "start"
  /\ FetchFrame
  /\ \E r \in responses :
       /\ topResp' = r
       /\ IF r.transport = "error" THEN FetchReturnError("fetch")
          ELSE IF r.status # 200 THEN FetchReturnError("status")
          ELSE IF UnmarshalIndexOK(r.body) /\ Len(r.body.locs) > 0
          THEN /\ fpc' = "children"
               /\ index' = r.body.locs
               /\ i' = 1
               /\ Sitemaps' = EmptyMap
               /\ AllURLs' = <<>>
               /\ UNCHANGED <<fetched, fetchErr>>
          ELSE IF ~UnmarshalURLSetOK(r.body) THEN FetchReturnError("parse")
          ELSE /\ fpc' = "returned"
               /\ Sitemaps' = MapSet(EmptyMap, sitemapURL, r.body.urls)
               /\ AllURLs' = dedupe(r.body.urls)
               /\ UNCHANGED <<index, i, fetched, fetchErr>>

\* Whether one iteration of fetchSitemapIndexGrouped's loop hits a continue
\* before the two assignments at its end.  resp.StatusCode is not read here.
childSkippedOnlyOnTransport(r) == r.transport = "error"

childSkipped(r) == r.transport = "error" \/ ~UnmarshalURLSetOK(r.body)

\* One iteration of the loop over index.Sitemaps.
FetchChild(responses) ==
  /\ fpc = "children"
  /\ FetchFrame
  /\ i <= Len(index)
  /\ \E r \in responses :
       /\ fetched' = Append(fetched, r)
       /\ i' = i + 1
       /\ IF childSkipped(r)
          THEN UNCHANGED <<Sitemaps, AllURLs>>
          ELSE /\ Sitemaps' = MapSet(Sitemaps, index[i], r.body.urls)
               /\ AllURLs' = AllURLs \o r.body.urls
  /\ UNCHANGED <<fpc, topResp, index, fetchErr>>

\* The end of fetchSitemapIndexGrouped: dedupe and return.
FetchIndexReturn ==
  /\ fpc = "children"
  /\ FetchFrame
  /\ i > Len(index)
  /\ fpc' = "returned"
  /\ AllURLs' = dedupe(AllURLs)
  /\ UNCHANGED <<topResp, index, i, fetched, Sitemaps, fetchErr>>

\* ------------------------------------------------------------ checker.go

\* The link outcomes the engine reports: LycheeLink {url, status{text, code}}.
LinkOK == [url |-> "x", text |-> "200 OK", code |-> 200]

LinkBroken == [url |-> "y", text |-> "404 Not Found", code |-> 404]

\* The maps from source page URL to link outcomes an output may hold.
LinkMaps ==
  { EmptyMap,
    MapSet(EmptyMap, "p1", <<LinkOK>>),
    MapSet(EmptyMap, "p1", <<LinkBroken, LinkOK>>),
    MapSet(MapSet(EmptyMap, "p1", <<LinkOK>>), "p2", <<LinkBroken>>) }

\* LycheeOutput, zero-valued.
EmptyOutput ==
  [Total |-> 0, Successful |-> 0, Errors |-> 0, Excludes |-> 0,
   SuccessMap |-> EmptyMap, ErrorMap |-> EmptyMap, ExcludedMap |-> EmptyMap]

\* The outputs the engine may write: counts up to MaxCount, with any maps.
Outputs ==
  { [Total |-> s + e + x, Successful |-> s, Errors |-> e, Excludes |-> x,
     SuccessMap |-> sm, ErrorMap |-> em, ExcludedMap |-> xm] :
      s \in 0..MaxCount, e \in 0..MaxCount, x \in 0..MaxCount,
      sm \in LinkMaps, em \in LinkMaps, xm \in LinkMaps }

\* The bytes of a file: JSON that decodes to out, or bytes that do not decode.
JSONBytes(out) == [valid |-> TRUE, out |-> out]

BadBytes == [valid |-> FALSE, out |-> EmptyOutput]

\* tempDir/output.json: absent, present but unreadable, or present with bytes.
AbsentFile == [state |-> "absent", bytes |-> BadBytes]

UnreadableFile == [state |-> "unreadable", bytes |-> BadBytes]

FileWith(bytes) == [state |-> "present", bytes |-> bytes]

NoURLsFile == [exists |-> FALSE, lines |-> <<>>]

\* The file at opts.OutputFile: not written, raw JSON bytes, or markdown.
NoSummary == [pages |-> 0, total |-> 0, passed |-> 0, failed |-> 0, excluded |-> 0,
              allValid |-> FALSE]

NoOutFile == [written |-> FALSE, kind |-> "none", raw |-> BadBytes, md |-> NoSummary]

\* &Result{}, and the nil *Result.
ZeroResult ==
  [nil |-> FALSE, PassedCount |-> 0, FailedCount |-> 0, ExcludedCount |-> 0, Links |-> <<>>]

NilResult ==
  [nil |-> TRUE, PassedCount |-> 0, FailedCount |-> 0, ExcludedCount |-> 0, Links |-> <<>>]

\* What a step of CheckURLs leaves alone.
CheckFrame == UNCHANGED <<fetchVars, runVars>>

\* len(pageURLs) == 0
IsEmptyInputNever(urls) == FALSE

IsEmptyInput(urls) == Len(urls) = 0

\* A return before the defer is registered.
CheckReturnEarly(res, e) ==
  /\ cpc' = "returned"
  /\ result' = res
  /\ checkErr' = e
  /\ UNCHANGED <<tempDir, urlsFile, jsonFile>>

\* A return after it: the deferred os.RemoveAll(tempDir) runs.
CheckReturnLeak(res, e) == CheckReturnEarly(res, e)

CheckReturn(res, e) ==
  /\ cpc' = "returned"
  /\ result' = res
  /\ checkErr' = e
  /\ tempDir' = FALSE
  /\ urlsFile' = NoURLsFile
  /\ jsonFile' = AbsentFile

\* The empty-input return and os.MkdirTemp.
CheckStart ==
  /\ cpc = "start"
  /\ CheckFrame
  /\ IF IsEmptyInput(pageURLs)
     THEN /\ CheckReturnEarly(ZeroResult, "none")
          /\ UNCHANGED mkdirCalls
     ELSE /\ mkdirCalls' = mkdirCalls + 1
          /\ \E ok \in BOOLEAN :
               IF ok
               THEN /\ tempDir' = TRUE
                    /\ cpc' = "writeURLs"
                    /\ UNCHANGED <<urlsFile, jsonFile, result, checkErr>>
               ELSE CheckReturnEarly(NilResult, "mkdir")
  /\ UNCHANGED <<pageURLs, opts, cmdErr, readErr, outputBytes, output, outFile, launches>>

\* os.WriteFile(urlsFile, ...)
CheckWriteURLs ==
  /\ cpc = "writeURLs"
  /\ CheckFrame
  /\ \E ok \in BOOLEAN :
       IF ok
       THEN /\ urlsFile' = [exists |-> TRUE, lines |-> pageURLs]
            /\ cpc' = "run"
            /\ UNCHANGED <<tempDir, jsonFile, result, checkErr>>
       ELSE CheckReturn(NilResult, "write urls")
  /\ UNCHANGED <<pageURLs, opts, cmdErr, readErr, outputBytes, output, outFile,
                 mkdirCalls, launches>>

\* What the engine may leave at tempDir/output.json when it ran.
EngineFiles(outs) ==
  {AbsentFile, UnreadableFile, FileWith(BadBytes)} \cup { FileWith(JSONBytes(o)) : o \in outs }

\* _ = cmd.Run(): the process does not start ("start"), or it runs and exits
\* with status 0 ("nil") or not ("exit"); the error is discarded.
CheckRunLychee(outs) ==
  /\ cpc = "run"
  /\ CheckFrame
  /\ launches' = launches + 1
  /\ \E e \in {"start", "nil", "exit"} :
       /\ cmdErr' = e
       /\ IF e = "start"
          THEN UNCHANGED jsonFile
          ELSE \E f \in EngineFiles(outs) : jsonFile' = f
  /\ cpc' = "read"
  /\ UNCHANGED <<pageURLs, opts, tempDir, urlsFile, readErr, outputBytes, output, result,
                 checkErr, outFile, mkdirCalls>>

\* "If no output, assume success".
FallbackNothingPassed(urls) == ZeroResult

Fallback(urls) == [ZeroResult EXCEPT !.PassedCount = Len(urls)]

\* os.ReadFile(jsonOutputFile) and the fallback return.
CheckReadOutput ==
  /\ cpc = "read"
  /\ CheckFrame
  /\ IF jsonFile.state # "present"
     THEN /\ readErr' = "error"
          /\ CheckReturn(Fallback(pageURLs), "none")
          /\ UNCHANGED outputBytes
     ELSE /\ readErr' = "nil"
          /\ outputBytes' = jsonFile.bytes
          /\ cpc' = "decode"
          /\ UNCHANGED <<tempDir, urlsFile, jsonFile, result, checkErr>>
  /\ UNCHANGED <<pageURLs, opts, cmdErr, output, outFile, mkdirCalls, launches>>

\* The orders in which a range over a Go map may visit its keys.
KeyOrders(m) ==
  { o \in SeqsUpTo(DOMAIN m, Cardinality(DOMAIN m)) :
      Len(o) = Cardinality(DOMAIN m) /\ \A a, b \in 1..Len(o) : o[a] = o[b] => a = b }

\* The (sourceURL, link) pairs of the nested loops over m, keys visited in order.
RECURSIVE LinkPairs(_, _)
LinkPairs(m, order) ==
  IF order = <<>> THEN <<>>
  ELSE [k \in 1..Len(m[Head(order)]) |-> <<Head(order), m[Head(order)][k]>>]
         \o LinkPairs(m, Tail(order))

\* The LinkStatus appended for a link of SuccessMap or ErrorMap.
EngineLinkStatus(sourceURL, link) ==
  [URL |-> link.url, Status |-> link.text, Code |-> link.code, SourceURL |-> sourceURL]

\* The LinkStatus appended for a link of ExcludedMap.
ExcludedLinkStatusFromEngine(sourceURL, link) == EngineLinkStatus(sourceURL, link)

ExcludedLinkStatus(sourceURL, link) ==
  [URL |-> link.url, Status |-> "excluded", Code |-> 0, SourceURL |-> sourceURL]

\* The records appended by the loops over SuccessMap and ErrorMap, and by the
\* loop over ExcludedMap.
EngineStatuses(pairs) ==
  [k \in 1..Len(pairs) |-> EngineLinkStatus(pairs[k][1], pairs[k][2])]

ExcludedStatuses(pairs) ==
  [k \in 1..Len(pairs) |-> ExcludedLinkStatus(pairs[k][1], pairs[k][2])]

\* The three loops that fill result.Links.
CollectLinks(out, o1, o2, o3) ==
  EngineStatuses(LinkPairs(out.SuccessMap, o1))
    \o EngineStatuses(LinkPairs(out.ErrorMap, o2))
    \o ExcludedStatuses(LinkPairs(out.ExcludedMap, o3))

\* The counts and links copied from the decoded output.
DecodedResult(out, links) ==
  [nil |-> FALSE, PassedCount |-> out.Successful, FailedCount |-> out.Errors,
   ExcludedCount |-> out.Excludes, Links |-> links]

\* json.Unmarshal, the counts, the three loops, and the return when no output
\* file was asked for.
CheckDecode ==
  /\ cpc = "decode"
  /\ CheckFrame
  /\ IF ~outputBytes.valid
     THEN /\ CheckReturn(NilResult, "parse")
          /\ UNCHANGED output
     ELSE /\ output' = outputBytes.out
          /\ \E o1 \in KeyOrders(outputBytes.out.SuccessMap),
                o2 \in KeyOrders(outputBytes.out.ErrorMap),
                o3 \in KeyOrders(outputBytes.out.ExcludedMap) :
               LET res == DecodedResult(outputBytes.out,
                                        CollectLinks(outputBytes.out, o1, o2, o3))
               IN  IF opts.OutputFile = ""
                   THEN CheckReturn(res, "none")
                   ELSE /\ result' = res
                        /\ cpc' = "writeOut"
                        /\ UNCHANGED <<tempDir, urlsFile, jsonFile, checkErr>>
  /\ UNCHANGED <<pageURLs, opts, cmdErr, readErr, outputBytes, outFile, mkdirCalls, launches>>

\* strings.ToLower(opts.Format) on the formats used here.
IsMarkdown(format) == format \in {"markdown", "md"}

\* formatMarkdown: the numbers the summary prints, and which closing line.
formatMarkdown(out, pageCount) ==
  [pages |-> pageCount, total |-> out.Total, passed |-> out.Successful,
   failed |-> out.Errors, excluded |-> out.Excludes, allValid |-> (out.Errors = 0)]

\* What the switch on opts.Format writes to opts.OutputFile.
OutFileContent ==
  IF IsMarkdown(opts.Format)
  THEN [written |-> TRUE, kind |-> "markdown", raw |-> BadBytes,
        md |-> formatMarkdown(output, Len(pageURLs))]
  ELSE [written |-> TRUE, kind |-> "raw", raw |-> outputBytes, md |-> NoSummary]

\* os.WriteFile(opts.OutputFile, ...) and the final return.
CheckWriteOutput ==
  /\ cpc = "writeOut"
  /\ CheckFrame
  /\ \E ok \in BOOLEAN :
       IF ok
       THEN /\ outFile' = OutFileContent
            /\ CheckReturn(result, "none")
       ELSE /\ UNCHANGED outFile
            /\ CheckReturn(NilResult, "write output")
  /\ UNCHANGED <<pageURLs, opts, cmdErr, readErr, outputBytes, output, mkdirCalls, launches>>

\* ------------------------------------------------------------ main.go

\* FullReport, zero-valued with no entries.
EmptyReport == [Sitemaps |-> <<>>, TotalPages |-> 0, TotalPassed |-> 0, TotalFailed |-> 0]

\* The process ends: os.Exit(code), or main returning (0), or main's os.Exit(1)
\* when rootCmd.Execute() returned run's error e.
Exit(code, e) ==
  /\ rpc' = "exited"
  /\ exitCode' = code
  /\ runErr' = e

\* A call of checker.CheckURLs(urls, o): fresh locals, the file system as it is.
CallCheckURLs(urls, o) ==
  /\ cpc' = "start"
  /\ pageURLs' = urls
  /\ opts' = o
  /\ cmdErr' = "notrun"
  /\ readErr' = "notread"
  /\ outputBytes' = BadBytes
  /\ output' = EmptyOutput
  /\ result' = NilResult
  /\ checkErr' = "none"
  /\ UNCHANGED <<tempDir, urlsFile, jsonFile, outFile, mkdirCalls, launches>>

\* run up to the call of sitemap.FetchGrouped: the IsLycheeInstalled check.
RunStart ==
  /\ rpc = "start"
  /\ \E installed \in BOOLEAN :
       IF ~flags.dryRun /\ ~installed
       THEN /\ Exit(1, "lychee is not installed")
            /\ UNCHANGED fpc
       ELSE /\ rpc' = "fetching"
            /\ fpc' = "start"
            /\ UNCHANGED <<runErr, exitCode>>
  /\ UNCHANGED <<topResp, index, i, fetched, Sitemaps, AllURLs, fetchErr>>
  /\ UNCHANGED <<flags, pending, smURL, report, hasFailures, errorLog, reportFile>>
  /\ UNCHANGED checkVars

\* run from the return of FetchGrouped to the dispatch on the mode; in
\* per-sitemap mode the entry of runPerSitemap, in merged mode the call of
\* CheckURLs.  The exchanges of the returned call are dropped with its frame.
RunAfterFetch ==
  /\ rpc = "fetching"
  /\ fpc = "returned"
  /\ fpc' = "idle"
  /\ topResp' = TransportError
  /\ i' = 1
  /\ fetched' = <<>>
  /\ UNCHANGED <<index, Sitemaps, AllURLs, fetchErr>>
  /\ UNCHANGED <<flags, smURL, errorLog, reportFile>>
  /\ IF fetchErr # "none"
     THEN /\ Exit(1, "failed to fetch sitemap")
          /\ UNCHANGED <<pending, report, hasFailures, checkVars>>
     ELSE IF flags.dryRun
     THEN /\ Exit(0, "none")
          /\ UNCHANGED <<pending, report, hasFailures, checkVars>>
     ELSE IF flags.perSitemap
     THEN /\ rpc' = "groups"
          /\ pending' = DOMAIN Sitemaps
          /\ report' = EmptyReport
          /\ hasFailures' = FALSE
          /\ UNCHANGED <<runErr, exitCode, checkVars>>
     ELSE /\ rpc' = "merged"
          /\ CallCheckURLs(AllURLs, [Format |-> flags.outputFormat,
                                     OutputFile |-> flags.outputFile])
          /\ UNCHANGED <<pending, report, hasFailures, runErr, exitCode>>

\* The status run ends with when no error occurred.
ExitStatusAlwaysClean(failures) == 0

ExitStatus(failures) == IF failures THEN 2 ELSE 0

\* run after the merged CheckURLs call returned.
RunMergedResult ==
  /\ rpc = "merged"
  /\ cpc = "returned"
  /\ IF checkErr # "none"
     THEN Exit(1, "link check failed")
     ELSE Exit(ExitStatus(result.FailedCount > 0), "none")
  /\ UNCHANGED <<flags, pending, smURL, report, hasFailures, errorLog, reportFile>>
  /\ UNCHANGED <<fetchVars, checkVars>>

\* The head of one iteration of runPerSitemap's range over fetchResult.Sitemaps:
\* a Go map yields its keys in no particular order.
RunGroupCall ==
  /\ rpc = "groups"
  /\ pending # {}
  /\ \E sm \in pending :
       /\ smURL' = sm
       /\ CallCheckURLs(Sitemaps[sm], [Format |-> "json", OutputFile |-> ""])
  /\ rpc' = "groupcheck"
  /\ UNCHANGED <<flags, pending, report, hasFailures, errorLog, reportFile, runErr, exitCode>>
  /\ UNCHANGED fetchVars

\* if err != nil { ...; continue }
GroupSkippedNever(e) == FALSE

GroupSkipped(e) == e # "none"

\* The rest of the iteration, after CheckURLs returned.
RunGroupResult ==
  /\ rpc = "groupcheck"
  /\ cpc = "returned"
  /\ rpc' = "groups"
  /\ pending' = pending \ {smURL}
  /\ IF GroupSkipped(checkErr)
     THEN /\ errorLog' = errorLog \cup {smURL}
          /\ UNCHANGED <<report, hasFailures>>
     ELSE /\ report' =
               [Sitemaps |-> Append(report.Sitemaps,
                                    [SitemapURL |-> smURL, PageCount |-> Len(pageURLs),
                                     Result |-> result]),
                TotalPages |-> report.TotalPages + Len(pageURLs),
                TotalPassed |-> report.TotalPassed + result.PassedCount,
                TotalFailed |-> report.TotalFailed + result.FailedCount]
          /\ hasFailures' = (hasFailures \/ result.FailedCount > 0)
          /\ UNCHANGED errorLog
  /\ UNCHANGED <<flags, smURL, reportFile, runErr, exitCode>>
  /\ UNCHANGED <<fetchVars, checkVars>>

\* runPerSitemap after the loop: the summary, the report file, the exit.
RunReport ==
  /\ rpc = "groups"
  /\ pending = {}
  /\ IF flags.outputFile = ""
     THEN /\ Exit(ExitStatus(hasFailures), "none")
          /\ UNCHANGED reportFile
     ELSE \E ok \in BOOLEAN :
            IF ok
            THEN /\ reportFile' = [written |-> TRUE, report |-> report]
                 /\ Exit(ExitStatus(hasFailures), "none")
            ELSE /\ Exit(1, "failed to write report")
                 /\ UNCHANGED reportFile
  /\ UNCHANGED <<flags, pending, smURL, report, hasFailures, errorLog>>
  /\ UNCHANGED <<fetchVars, checkVars>>

\* ------------------------------------------------- the resolver on its own

\* FetchGrouped not called, or just called.
FetchAt(pc) ==
  /\ fpc = pc
  /\ topResp = TransportError
  /\ index = <<>>
  /\ i = 1
  /\ fetched = <<>>
  /\ Sitemaps = EmptyMap
  /\ AllURLs = <<>>
  /\ fetchErr = "none"

\* CheckURLs not called ("idle"), or just called with urls and o ("start"), on a
\* file system with no scratch directory and nothing at the output path.
CheckAt(pc, urls, o) ==
  /\ cpc = pc
  /\ pageURLs = urls
  /\ opts = o
  /\ tempDir = FALSE
  /\ urlsFile = NoURLsFile
  /\ jsonFile = AbsentFile
  /\ cmdErr = "notrun"
  /\ readErr = "notread"
  /\ outputBytes = BadBytes
  /\ output = EmptyOutput
  /\ result = NilResult
  /\ checkErr = "none"
  /\ outFile = NoOutFile
  /\ mkdirCalls = 0
  /\ launches = 0

NoOptions == [Format |-> "", OutputFile |-> ""]

NoFlags == [dryRun |-> FALSE, perSitemap |-> FALSE, outputFile |-> "", outputFormat |-> ""]

\* run not called ("none"), or just called with flags f ("start").
RunAt(pc, f) ==
  /\ rpc = pc
  /\ flags = f
  /\ pending = {}
  /\ smURL = ""
  /\ report = EmptyReport
  /\ hasFailures = FALSE
  /\ errorLog = {}
  /\ reportFile = [written |-> FALSE, report |-> EmptyReport]
  /\ runErr = "none"
  /\ exitCode = -1

InitFetch ==
  /\ FetchAt("start")
  /\ CheckAt("idle", <<>>, NoOptions)
  /\ RunAt("none", NoFlags)

NextFetch ==
  \/ FetchTop(TopResponses)
  \/ FetchChild(ChildResponses)
  \/ FetchIndexReturn

SpecFetch == InitFetch /\ [][NextFetch]_vars

\* The same, with the progress sequential code makes: every statement of
\* FetchGrouped completes (the HTTP client has a 30 s timeout), so a call that
\* can take a step takes one.
SpecFetchLive == SpecFetch /\ WF_vars(NextFetch)

\* ------------------------------------------------- the orchestrator on its own

PageLists == { <<>>, <<"/a">>, <<"/a", "/b">> }

Formats == {"compact", "json", "markdown"}

OutputFiles == {"", "report.out"}

InitCheck ==
  /\ RunAt("none", NoFlags)
  /\ FetchAt("idle")
  /\ \E urls \in PageLists, f \in Formats, o \in OutputFiles :
       CheckAt("start", urls, [Format |-> f, OutputFile |-> o])

NextCheck ==
  \/ CheckStart
  \/ CheckWriteURLs
  \/ CheckRunLychee(Outputs)
  \/ CheckReadOutput
  \/ CheckDecode
  \/ CheckWriteOutput

SpecCheck == InitCheck /\ [][NextCheck]_vars

\* ------------------------------------------------- the whole program

\* The documents and engine outputs of a whole run: the same kinds, fewer of each.
RunLeafDocs == { <<>>, <<"/a">>, <<"/a", "/b">> }

RunLocs == {"s1", "s2"}

RunTopResponses ==
  {TransportError, HTTPResponse(404, GarbageDoc), HTTPResponse(200, GarbageDoc)}
    \cup { HTTPResponse(200, IndexDoc(l)) : l \in SeqsUpTo(RunLocs, MaxChildren) }
    \cup { HTTPResponse(200, URLSetDoc(u)) : u \in RunLeafDocs }

RunChildResponses ==
  {TransportError} \cup { HTTPResponse(200, URLSetDoc(u)) : u \in RunLeafDocs }

RunOutputs ==
  { o \in Outputs : /\ o.SuccessMap = EmptyMap /\ o.ErrorMap = EmptyMap
                    /\ o.ExcludedMap = EmptyMap /\ o.Excludes = 0 }

Init ==
  /\ FetchAt("idle")
  /\ CheckAt("idle", <<>>, NoOptions)
  /\ \E d \in BOOLEAN, g \in BOOLEAN, o \in OutputFiles, f \in Formats :
       RunAt("start", [dryRun |-> d, perSitemap |-> g, outputFile |-> o, outputFormat |-> f])

Next ==
  \/ RunStart
  \/ FetchTop(RunTopResponses)
  \/ FetchChild(RunChildResponses)
  \/ FetchIndexReturn
  \/ RunAfterFetch
  \/ CheckStart
  \/ CheckWriteURLs
  \/ CheckRunLychee(RunOutputs)
  \/ CheckReadOutput
  \/ CheckDecode
  \/ CheckWriteOutput
  \/ RunMergedResult
  \/ RunGroupCall
  \/ RunGroupResult
  \/ RunReport

Spec == Init /\ [][Next]_vars

\* ------------------------------------------------- properties: the resolver

Range(s) == { s[k] : k \in 1..Len(s) }

NoDuplicates(s) == \A a, b \in 1..Len(s) : s[a] = s[b] => a = b

FirstIndex(s, x) == CHOOSE k \in 1..Len(s) : s[k] = x /\ \A j \in 1..(k - 1) : s[j] # x

\* d holds each distinct element of s once, in the order of first occurrence in s.
IsFirstSeenOrder(d, s) ==
  /\ NoDuplicates(d)
  /\ Range(d) = Range(s)
  /\ \A a, b \in 1..Len(d) : a < b => FirstIndex(s, d[a]) < FirstIndex(s, d[b])

\* The URLs of the exchanges of rs at the positions in good, from position k on,
\* concatenated in order.
RECURSIVE LeafConcatFrom(_, _, _)
LeafConcatFrom(rs, good, k) ==
  IF k > Len(rs) THEN <<>>
  ELSE (IF k \in good THEN rs[k].body.urls ELSE <<>>) \o LeafConcatFrom(rs, good, k + 1)


\* A child that was fetched and parsed without any failure, a non-200 status
\* being a failure.
ChildSucceeded(r) == r.transport = "ok" /\ r.status = 200 /\ r.body.kind = "urlset"

\* A child whose body arrived and is a urlset.
ChildParsed(r) == r.transport = "ok" /\ r.body.kind = "urlset"

\* The URLs of the successful children, and of the parsed ones, in index order.
SucceededURLs ==
  LeafConcatFrom(fetched, { k \in 1..Len(fetched) : ChildSucceeded(fetched[k]) }, 1)

ParsedURLs ==
  LeafConcatFrom(fetched, { k \in 1..Len(fetched) : ChildParsed(fetched[k]) }, 1)

IndexPathReturned == fpc = "returned" /\ index # <<>>

LeafPathReturned == fpc = "returned" /\ index = <<>> /\ fetchErr = "none"

\* C1: on an index with N children of which K fail (a non-200 response
\* included), FetchGrouped returns no error, every child is processed, AllURLs
\* is the first-seen-order deduplication of the URLs of the N-K successful
\* children, and a location whose fetches all failed has no entry in Sitemaps.
C1_FailedChildrenContributeNothing ==
  IndexPathReturned =>
    /\ fetchErr = "none"
    /\ Len(fetched) = Len(index)
    /\ IsFirstSeenOrder(AllURLs, SucceededURLs)
    /\ \A k \in 1..Len(index) :
         (\A j \in 1..Len(index) : index[j] = index[k] => ~ChildSucceeded(fetched[j]))
           => index[k] \notin DOMAIN Sitemaps

\* The leaf sequences the call discovered, concatenated in discovery order.
Discovered ==
  IF index = <<>> THEN topResp.body.urls ELSE ParsedURLs

\* The last leaf sequence discovered at location k.
LastLeafAt(k) ==
  IF index = <<>> THEN topResp.body.urls
  ELSE LET last == CHOOSE j \in 1..Len(index) :
                     /\ index[j] = k /\ ChildParsed(fetched[j])
                     /\ \A h \in (j + 1)..Len(index) :
                          ~(index[h] = k /\ ChildParsed(fetched[h]))
       IN  fetched[last].body.urls

\* C2: in every FetchResult returned (leaf or index path) AllURLs holds each
\* distinct URL once, in order of first occurrence across the discovered leaf
\* sequences, and each Sitemaps entry is the leaf sequence as found, duplicates
\* kept.
C2_AllURLsDedupedSitemapsRaw ==
  (fpc = "returned" /\ fetchErr = "none") =>
    /\ IsFirstSeenOrder(AllURLs, Discovered)
    /\ \A k \in DOMAIN Sitemaps : Sitemaps[k] = LastLeafAt(k)

\* C2's case: the leaf /a /b /a.
C2_Witness ==
  /\ LeafPathReturned
  /\ topResp.body.urls = <<"/a", "/b", "/a">>
  /\ AllURLs = <<"/a", "/b">>
  /\ Sitemaps[sitemapURL] = <<"/a", "/b", "/a">>

\* The top-level document is a sitemap index, served with status 200.
TopIsIndex ==
  topResp.transport = "ok" /\ topResp.status = 200 /\ topResp.body.kind = "sitemapindex"

\* C8: FetchGrouped on an index with zero valid children (every listed child
\* fails, or the index lists no child at all) returns an empty FetchResult and
\* no error.
C8_EmptyIndexIsEmptyResult ==
  (fpc = "returned" /\ TopIsIndex /\ \A k \in 1..Len(fetched) : ~ChildParsed(fetched[k])) =>
    /\ fetchErr = "none"
    /\ AllURLs = <<>>
    /\ Sitemaps = EmptyMap

\* ------------------------------------------------- properties: the orchestrator

\* C3: a failed launch of the engine subprocess makes CheckURLs return an
\* error, unlike a run that reported broken links.
C3_LaunchFailureIsFatal ==
  (cpc = "returned" /\ cmdErr = "start") => (checkErr # "none" /\ result.nil)

\* C4: CheckURLs on an empty URL list returns a zero-count result with no
\* links and no error, makes no scratch directory, runs no subprocess and
\* writes no output file.
C4_EmptyInputDoesNothing ==
  (cpc \notin {"idle", "start"} /\ pageURLs = <<>>) =>
    /\ cpc = "returned"
    /\ checkErr = "none"
    /\ result = ZeroResult
    /\ mkdirCalls = 0 /\ ~tempDir
    /\ launches = 0 /\ cmdErr = "notrun"
    /\ ~outFile.written

\* C4's case: the call on the empty list has returned, an output file asked for.
C4_Witness ==
  /\ cpc = "returned"
  /\ pageURLs = <<>>
  /\ opts.OutputFile # ""
  /\ result.PassedCount = 0

\* C5: on a non-empty URL list, an output file that is missing or unreadable
\* after the subprocess step gives no error and PassedCount = len(urls) with
\* zero failures, zero exclusions and no links; one that is read but does not
\* decode gives a decode error and no result.
C5_MissingOutputPassesUndecodableFails ==
  /\ (cpc = "returned" /\ readErr = "error") =>
       /\ Len(pageURLs) > 0
       /\ checkErr = "none"
       /\ ~result.nil
       /\ result.PassedCount = Len(pageURLs)
       /\ result.FailedCount = 0
       /\ result.ExcludedCount = 0
       /\ result.Links = <<>>
  /\ (cpc = "returned" /\ readErr = "nil" /\ ~outputBytes.valid) =>
       (checkErr = "parse" /\ result.nil)

\* C5's case: the engine ran, left no output file, and the call on two URLs
\* has returned.
C5_Witness ==
  /\ cpc = "returned"
  /\ readErr = "error"
  /\ cmdErr = "exit"
  /\ Len(pageURLs) = 2
  /\ result.PassedCount = 2

\* C9: no scratch directory, and no file of it, exists once a call has
\* returned, whatever the exit path; it exists only while the call that made it
\* is between os.MkdirTemp and its return.
C9_ScratchReleasedOnReturn ==
  /\ cpc = "returned" => (~tempDir /\ ~urlsFile.exists /\ jsonFile.state = "absent")
  /\ tempDir => cpc \in {"writeURLs", "run", "read", "decode", "writeOut"}

\* C9's case: a call that made its scratch directory returned on the
\* output-file write error path.
C9_Witness ==
  /\ cpc = "returned"
  /\ mkdirCalls = 1
  /\ checkErr = "write output"
  /\ ~tempDir

\* The link outcomes of the decoded output: which map, source page, position.
OutcomeSlots ==
  { <<m, src, k>> \in {"success", "error", "excluded"} \X {"p1", "p2"} \X (1..2) :
      LET mp == IF m = "success" THEN output.SuccessMap
                ELSE IF m = "error" THEN output.ErrorMap ELSE output.ExcludedMap
      IN  src \in DOMAIN mp /\ k <= Len(mp[src]) }

\* The record the result must hold for an outcome slot.
ExpectedStatus(slot) ==
  LET mp == IF slot[1] = "success" THEN output.SuccessMap
            ELSE IF slot[1] = "error" THEN output.ErrorMap ELSE output.ExcludedMap
      link == mp[slot[2]][slot[3]]
  IN  IF slot[1] = "excluded"
      THEN [URL |-> link.url, Status |-> "excluded", Code |-> 0, SourceURL |-> slot[2]]
      ELSE [URL |-> link.url, Status |-> link.text, Code |-> link.code, SourceURL |-> slot[2]]

\* C10: when the structured output decodes, the returned result copies the three
\* counts from successful, errors and excludes, and Links holds exactly one
\* record per link outcome of the three maps, tagged with its source page;
\* records of the excluded map carry the status "excluded", the others the
\* engine's status text and code.
C10_DecodedResultMirrorsOutput ==
  (cpc = "returned" /\ readErr = "nil" /\ outputBytes.valid /\ checkErr = "none") =>
    /\ ~result.nil
    /\ output = outputBytes.out
    /\ result.PassedCount = output.Successful
    /\ result.FailedCount = output.Errors
    /\ result.ExcludedCount = output.Excludes
    /\ Len(result.Links) = Cardinality(OutcomeSlots)
    /\ \A x \in Range(result.Links) \cup { ExpectedStatus(t) : t \in OutcomeSlots } :
         Cardinality({ k \in 1..Len(result.Links) : result.Links[k] = x })
           = Cardinality({ t \in OutcomeSlots : ExpectedStatus(t) = x })

\* C10's case: an output with links in all three maps, two source pages in the
\* excluded map, decoded and returned.
C10_Witness ==
  /\ cpc = "returned"
  /\ checkErr = "none"
  /\ readErr = "nil"
  /\ output.Successful = 1 /\ output.Errors = 1 /\ output.Excludes = 1
  /\ Cardinality(DOMAIN output.ExcludedMap) = 2
  /\ output.SuccessMap # EmptyMap
  /\ output.ErrorMap # EmptyMap
  /\ Len(result.Links) >= 4
  /\ \E k \in 1..Len(result.Links) : result.Links[k].Status = "excluded"

\* ------------------------------------------------- properties: the run

RECURSIVE SumOver(_, _)
SumOver(S, f) ==
  IF S = {} THEN 0
  ELSE LET x == CHOOSE y \in S : TRUE IN f[x] + SumOver(S \ {x}, f)

\* runPerSitemap is running or has run.
InGroupedMode == flags.perSitemap /\ rpc \in {"groups", "groupcheck", "exited"}
                   /\ runErr \notin {"lychee is not installed", "failed to fetch sitemap"}
                   /\ ~flags.dryRun

\* The groups whose iteration is over.
VisitedGroups == (DOMAIN Sitemaps) \ pending

ReportEntries == 1..Len(report.Sitemaps)

\* C6: in grouped mode a group whose CheckURLs call returned an error is
\* skipped and the loop goes on: the Report holds exactly one entry per group
\* whose call succeeded and none for a failed one, the totals are the sums over
\* these entries, the failure flag is true exactly when some entry has
\* FailedCount > 0, and the run ends only when every group was visited.
C6_FailedGroupsSkipped ==
  InGroupedMode =>
    /\ rpc = "exited" => pending = {}
    /\ { report.Sitemaps[k].SitemapURL : k \in ReportEntries } = VisitedGroups \ errorLog
    /\ Len(report.Sitemaps) = Cardinality(VisitedGroups \ errorLog)
    /\ \A k \in ReportEntries :
         /\ ~report.Sitemaps[k].Result.nil
         /\ report.Sitemaps[k].PageCount = Len(Sitemaps[report.Sitemaps[k].SitemapURL])
    /\ report.TotalPages = SumOver(ReportEntries, [k \in ReportEntries |-> report.Sitemaps[k].PageCount])
    /\ report.TotalPassed =
         SumOver(ReportEntries, [k \in ReportEntries |-> report.Sitemaps[k].Result.PassedCount])
    /\ report.TotalFailed =
         SumOver(ReportEntries, [k \in ReportEntries |-> report.Sitemaps[k].Result.FailedCount])
    /\ hasFailures <=> \E k \in ReportEntries : report.Sitemaps[k].Result.FailedCount > 0

\* C6's case: two groups, the first one visited failed, the second has an entry
\* with a broken link, and the run has ended.
C6_Witness ==
  /\ InGroupedMode
  /\ rpc = "exited"
  /\ Cardinality(DOMAIN Sitemaps) = 2
  /\ Cardinality(errorLog) = 1
  /\ Len(report.Sitemaps) = 1
  /\ hasFailures
  /\ mkdirCalls = 2

\* Some check that completed (returned a result) reported a broken link.
AnyBrokenLink ==
  IF flags.perSitemap
  THEN InGroupedMode /\ \E k \in ReportEntries : report.Sitemaps[k].Result.FailedCount > 0
  ELSE /\ rpc = "exited" /\ cpc = "returned"
       /\ checkErr = "none" /\ ~result.nil /\ result.FailedCount > 0

\* C7: in both modes the run ends with status 2 whenever a completed check
\* reported a broken link, with status 1 on a fatal error, and with 0 otherwise.
C7_ExitStatusThreeWay ==
  rpc = "exited" =>
    /\ AnyBrokenLink => exitCode = 2
    /\ runErr # "none" => exitCode = 1
    /\ (~AnyBrokenLink /\ runErr = "none") => exitCode = 0

\* C7 as amended: a fatal error ends the run with status 1 even when a completed
\* check reported a broken link (the grouped report could not be written);
\* without a fatal error the status is 2 when a completed check reported a
\* broken link and 0 otherwise.
C7_ExitStatusErrorFirst ==
  rpc = "exited" =>
    exitCode = (IF runErr # "none" THEN 1 ELSE IF AnyBrokenLink THEN 2 ELSE 0)

\* C7's case: a group reported a broken link and the report could not be written.
C7_Witness ==
  /\ rpc = "exited"
  /\ AnyBrokenLink
  /\ runErr = "failed to write report"
  /\ exitCode = 1

\* ------------------------------------------------- properties: step order

\* C11: a CheckURLs call on a non-empty list runs parse-or-fall-back and then,
\* when an output destination was requested, the render/write step, on the
\* parsed branch and on the missing-output fallback branch alike: every
\* successful call with a requested destination has written it on return.
C11_RequestedOutputWrittenOnSuccess ==
  (cpc = "returned" /\ Len(pageURLs) > 0 /\ opts.OutputFile # "" /\ checkErr = "none") =>
    outFile.written

\* The positions of the index whose exchange is done and brought a urlset body.
URLSetChildren == { j \in 1..Len(fetched) : fetched[j].body.kind = "urlset" }

\* The worklist is the top-level index and nothing else, each entry costs one
\* fetch, and only children with a urlset body have an entry or URLs in the
\* result: a child that is an index adds no entry, no URL and no further fetch.
OneLevelOnly ==
  /\ index = (IF fpc \in {"children", "returned"} /\ TopIsIndex
              THEN topResp.body.locs ELSE <<>>)
  /\ Len(fetched) <= Len(index)
  /\ i = Len(fetched) + 1
  /\ index # <<>> =>
       /\ \A k \in DOMAIN Sitemaps : \E j \in URLSetChildren : index[j] = k
       /\ Range(AllURLs) \subseteq UNION { Range(fetched[j].body.urls) : j \in URLSetChildren }

\* C12: resolution goes one level deep: a child listed in an index is parsed
\* only as a leaf urlset and never expanded, so FetchGrouped on an index of N
\* entries makes at most 1 + N fetches and always returns, also when a child is
\* itself an index or points back to the top-level index (it contributes
\* nothing).
C12_OneLevelAndTerminates == []OneLevelOnly /\ <>(fpc = "returned")

\* C12's case: the first child is the top-level URL again and answers with an
\* index naming the top-level URL; the call returned after 1 + 2 fetches with
\* the URLs of the second child only.
C12_Witness ==
  /\ fpc = "returned"
  /\ index = <<"top", "s1">>
  /\ Len(fetched) = 2
  /\ fetched[1] = HTTPResponse(200, IndexDoc(<<"top">>))
  /\ DOMAIN Sitemaps = {"s1"}
  /\ AllURLs = <<"/b", "/a">>

\* C13: the grouped view keeps discovery order: Sitemaps is traversed in
\* insertion order, so the groups are checked, and the Report's entries appear,
\* in the order the child sitemaps are listed in the index, on every run.
C13_ReportInIndexOrder ==
  (InGroupedMode /\ index # <<>> /\ NoDuplicates(index)) =>
    \A a, b \in ReportEntries :
      a < b => FirstIndex(index, report.Sitemaps[a].SitemapURL)
                 < FirstIndex(index, report.Sitemaps[b].SitemapURL)

====
